---- MODULE Spec2Model ----
(***************************************************************************)
(* A model of the plotter geometry kernel (engine/src/lib.rs and           *)
(* engine/src/points.rs): polar/cartesian points, shapes and segments.     *)
(*                                                                         *)
(* f32 arithmetic is modelled in fixed point.  A length is an integer      *)
(* number of ticks, Scale ticks to the millimetre; an angle is an integer  *)
(* number of angle ticks, AngleScale to the radian (or to the degree).     *)
(* Sums, differences and products of ticks are exact; a square root or a   *)
(* quotient rounds toward zero, and num / sqrt(r) rounds once, so that a   *)
(* comparison of the distance with MIN_RADIUS is decided as in exact       *)
(* arithmetic.  The three IEEE values that the code's own arithmetic can   *)
(* produce from finite inputs (NaN, +inf, -inf) are kept as values: every  *)
(* ordered comparison with NaN is false, as in IEEE 754.  Callers pass     *)
(* finite numbers; signed zero is not distinguished.                       *)
(***************************************************************************)
EXTENDS Integers, Sequences, FiniteSets, TLC

VARIABLES call, result, point, segment

vars == <<call, result, point, segment>>

(***************************************************************************)
(* Bounds of the model.                                                    *)
(***************************************************************************)
Scale == 2
AngleScale == 1000
CoordStep == 7
MaxK == 4
MaxArc == 3

(***************************************************************************)
(* f32 values.                                                             *)
(***************************************************************************)
NaN == -(2 * 10^9)
PosInf == 10^9
NegInf == -(10^9)

IsNaN(a) == a = NaN
IsInf(a) == a = PosInf \/ a = NegInf
IsFinite(a) == ~IsNaN(a) /\ ~IsInf(a)

Abs(n) == IF n < 0 THEN -n ELSE n

\* integer quotient rounded toward zero, b # 0
TDiv(a, b) == IF (a < 0) = (b < 0) THEN Abs(a) \div Abs(b) ELSE -(Abs(a) \div Abs(b))

RECURSIVE SqrtSearch(_, _, _)
SqrtSearch(n, lo, hi) ==
    IF lo >= hi THEN lo
    ELSE LET mid == (lo + hi + 1) \div 2
         IN IF mid * mid <= n THEN SqrtSearch(n, mid, hi) ELSE SqrtSearch(n, lo, mid - 1)

\* floor of the square root of a natural number
ISqrt(n) == SqrtSearch(n, 0, IF n < 46340 THEN n ELSE 46340)

FLt(a, b) == ~IsNaN(a) /\ ~IsNaN(b) /\ a < b
FGt(a, b) == ~IsNaN(a) /\ ~IsNaN(b) /\ a > b

FNeg(a) == IF IsNaN(a) THEN NaN ELSE -a

FAdd(a, b) ==
    IF IsNaN(a) \/ IsNaN(b) THEN NaN
    ELSE IF IsInf(a) /\ IsInf(b) THEN (IF a = b THEN a ELSE NaN)
    ELSE IF IsInf(a) THEN a
    ELSE IF IsInf(b) THEN b
    ELSE a + b

FSub(a, b) == FAdd(a, FNeg(b))

FAbs(a) == IF IsNaN(a) THEN NaN ELSE Abs(a)

\* is_sign_negative on the values the model distinguishes
is_sign_negative(a) == ~IsNaN(a) /\ a < 0

\* num * k / den over finite num, k, den, rounded once: 0/0 is NaN, x/0 is an infinity
MulDiv(num, k, den) ==
    IF IsNaN(num) \/ IsNaN(k) \/ IsNaN(den) THEN NaN
    ELSE IF den = 0
    THEN (IF num * k = 0 THEN NaN ELSE IF num * k > 0 THEN PosInf ELSE NegInf)
    ELSE TDiv(num * k, den)

(***************************************************************************)
(* Program constants, in millimetres and in ticks.                         *)
(***************************************************************************)
MIN_RADIUS == 14
MAX_RADIUS == 31
MinR == MIN_RADIUS * Scale
MaxR == MAX_RADIUS * Scale
MID_RADIUS == MinR + (MaxR - MinR) \div 2

\* pi and 360 degrees in angle ticks
PI == (31416 * AngleScale) \div 10000
FullTurn == 360 * AngleScale

(***************************************************************************)
(* Values returned by the kernel.                                          *)
(***************************************************************************)
None == [tag |-> "None"]
Ok(v) == [tag |-> "Ok", val |-> v]
Err(e) == [tag |-> "Err", err |-> e]
IsOk(r) == r.tag = "Ok"
IsErr(r) == r.tag = "Err"

BelowMinimumRadius(r, th) == [kind |-> "BelowMinimumRadius", radius |-> r, theta |-> th]
AboveMaximumRadius(r, th) == [kind |-> "AboveMaximumRadius", radius |-> r, theta |-> th]
CrossesRotationMax == [kind |-> "CrossesRotationMax"]
CrossesDeadZone(d) == [kind |-> "CrossesDeadZone", distance |-> d]

PointCartesian(x, y) == [x |-> x, y |-> y]
PointPolar(radius, theta) == [radius |-> radius, theta |-> theta]
Full == [rot |-> "Full"]
Partial(angle) == [rot |-> "Partial", angle |-> angle]
Arc(p, rotation) == [shape |-> "Arc", point |-> p, rotation |-> rotation]
\* the tuple struct Segment(PointCartesian, PointCartesian): fields 0 and 1 are a and b
Segment(a, b) == [a |-> a, b |-> b]

(***************************************************************************)
(* f32::hypot, f32::atan2, f32::to_degrees.                                *)
(***************************************************************************)
Hypot(x, y) ==
    IF IsNaN(x) \/ IsNaN(y) THEN NaN ELSE ISqrt(x * x + y * y)

\* The first-quadrant angle of (|x|, |y|) as a fraction of a quarter turn, in
\* 1/AngleScale: the rational approximation n / (x^2 + b + n), b = 0.596227 |xy|,
\* n = b + y^2, exact on the axes and the diagonals.
AtanQuadrant(x, y) ==
    LET b == (596 * Abs(x * y)) \div 1000
        n == b + y * y
    IN (n * AngleScale) \div (x * x + b + n)

\* atan2(y, x) in angle ticks, in (-pi, pi]; atan2(0, 0) = 0
Atan2(y, x) ==
    IF IsNaN(x) \/ IsNaN(y) THEN NaN
    ELSE IF x = 0 /\ y = 0 THEN 0
    ELSE LET q == AtanQuadrant(x, y)
             norm == IF x >= 0 /\ y >= 0 THEN q
                     ELSE IF x < 0 /\ y >= 0 THEN 2 * AngleScale - q
                     ELSE IF x < 0 /\ y < 0 THEN q - 2 * AngleScale
                     ELSE -q
         IN TDiv(PI * norm, 2 * AngleScale)

\* v * (180 / pi), 180 / pi = 57.296
ToDegrees(v) ==
    IF ~IsFinite(v) THEN v
    ELSE LET m == Abs(v)
             d == (m \div 1000) * 57296 + ((m % 1000) * 57296) \div 1000
         IN IF v < 0 THEN -d ELSE d

(***************************************************************************)
(* PointPolar::try_new and PointCartesian::as_polar.                       *)
(***************************************************************************)
\* try_new with a fault: a radius of exactly MAX_RADIUS or MIN_RADIUS is rejected
PointPolar_try_new_strict(radius, theta) ==
    IF ~FLt(radius, MaxR) THEN Err(AboveMaximumRadius(radius, theta))
    ELSE IF ~FGt(radius, MinR) THEN Err(BelowMinimumRadius(radius, theta))
    ELSE Ok(PointPolar(radius, theta))

PointPolar_try_new(radius, theta) ==
    IF FGt(radius, MaxR) THEN Err(AboveMaximumRadius(radius, theta))
    ELSE IF FLt(radius, MinR) THEN Err(BelowMinimumRadius(radius, theta))
    ELSE Ok(PointPolar(radius, theta))

as_polar(p) ==
    LET radius == Hypot(p.x, p.y)
        theta == Atan2(p.y, p.x)
    IN PointPolar_try_new(radius, theta)

(***************************************************************************)
(* Shape::circle and Shape::arc.                                           *)
(***************************************************************************)
Shape_circle(radius) ==
    LET p == PointPolar_try_new(radius, 0)
    IN IF IsErr(p) THEN p ELSE Ok(Arc(p.val, Full))

\* arc with a fault: the arc length is taken as an angle, not divided by the radius
Shape_arc_no_radius(p, arc_length) ==
    LET angle == FAdd(ToDegrees(MulDiv(arc_length, AngleScale, Scale)), p.theta)
    IN IF FGt(angle, FullTurn) THEN Err(CrossesRotationMax)
       ELSE Ok(Arc(p, Partial(angle)))

Shape_arc(p, arc_length) ==
    LET angle == FAdd(ToDegrees(MulDiv(arc_length, AngleScale, p.radius)), p.theta)
    IN IF FGt(angle, FullTurn) THEN Err(CrossesRotationMax)
       ELSE Ok(Arc(p, Partial(angle)))

(***************************************************************************)
(* Segment::try_new and its two checks.                                    *)
(***************************************************************************)
\* check_rotation_max with a fault: only the first endpoint's x is tested
check_rotation_max_first_x(seg) ==
    LET point_a == seg.a
        point_b == seg.b
    IN IF ~is_sign_negative(point_a.x)
          /\ (is_sign_negative(point_a.y) # is_sign_negative(point_b.y))
       THEN Err(CrossesRotationMax)
       ELSE Ok(seg)

check_rotation_max(seg) ==
    LET point_a == seg.a
        point_b == seg.b
    IN IF ~is_sign_negative(point_a.x) /\ ~is_sign_negative(point_b.x)
          /\ (is_sign_negative(point_a.y) # is_sign_negative(point_b.y))
       THEN Err(CrossesRotationMax)
       ELSE Ok(seg)

\* num / sqrt(radicand) for num >= 0, rounded once: floor(num / sqrt(radicand))
DivSqrt(num, radicand) ==
    IF radicand = 0 THEN (IF num = 0 THEN NaN ELSE PosInf)
    ELSE ISqrt((num * num) \div radicand)

\* check_dead_zone with a fault: a line at exactly MIN_RADIUS is rejected too
check_dead_zone_le(seg) ==
    LET point_a == seg.a
        point_b == seg.b
        distance == DivSqrt(
            FAbs((point_a.x - point_b.x) * point_a.y + (point_b.y - point_a.y) * point_a.x),
            (point_b.x - point_a.x) * (point_b.x - point_a.x)
                + (point_a.y - point_b.y) * (point_a.y - point_b.y))
    IN IF ~FGt(distance, MinR) THEN Err(CrossesDeadZone(distance))
       ELSE Ok(seg)

check_dead_zone(seg) ==
    LET point_a == seg.a
        point_b == seg.b
        distance == DivSqrt(
            FAbs((point_a.x - point_b.x) * point_a.y + (point_b.y - point_a.y) * point_a.x),
            (point_b.x - point_a.x) * (point_b.x - point_a.x)
                + (point_a.y - point_b.y) * (point_a.y - point_b.y))
    IN IF FLt(distance, MinR) THEN Err(CrossesDeadZone(distance))
       ELSE Ok(seg)

\* try_new with a fault: the dead-zone check runs first
Segment_try_new_dead_zone_first(point_a, point_b) ==
    LET r == check_dead_zone(Segment(point_a, point_b))
    IN IF IsErr(r) THEN r ELSE check_rotation_max(r.val)

Segment_try_new(point_a, point_b) ==
    LET r == check_rotation_max(Segment(point_a, point_b))
    IN IF IsErr(r) THEN r ELSE check_dead_zone(r.val)

(***************************************************************************)
(* Segment::step (spec section 4.4): the point at `distance` along the     *)
(* segment, converted to polar.  The result of the conversion is kept as   *)
(* it is returned by as_polar.                                             *)
(***************************************************************************)
segment_length(seg) ==
    ISqrt((seg.a.x - seg.b.x) * (seg.a.x - seg.b.x)
          + (seg.a.y - seg.b.y) * (seg.a.y - seg.b.y))

Segment_step(seg, distance) ==
    LET a == seg.a
        b == seg.b
        length == segment_length(seg)
    IN IF FLt(distance, 0) \/ FGt(distance, length) THEN None
       ELSE as_polar(PointCartesian(
                FSub(a.x, MulDiv(distance, a.x - b.x, length)),
                FSub(a.y, MulDiv(distance, a.y - b.y, length))))

(***************************************************************************)
(* The inputs of the model.                                                *)
(***************************************************************************)
Coord ==
    {k * CoordStep * Scale : k \in -MaxK..MaxK}
        \cup {MaxR, -MaxR, MID_RADIUS, -MID_RADIUS}

Points == {PointCartesian(x, y) : x \in Coord, y \in Coord}

RawRadii == {0, MinR - Scale, MinR, MID_RADIUS, MaxR, MaxR + Scale}

\* 0, the 2.0 of test_make_arc, pi, -pi/2, and more than a full turn of degrees
RawThetas == {0, 2 * AngleScale, PI, -(PI \div 2), FullTurn + 2 * AngleScale}

\* multiples of half the circumference at MIN_RADIUS (test_make_arc: PI * MIN_RADIUS)
ArcLengths == {k * ((PI * MinR) \div AngleScale) : k \in -MaxArc..MaxArc}

StepDistances(seg) ==
    LET length == segment_length(seg)
    IN {-1, 0, length \div 2, length, length + 1}

NoCall == [op |-> "none"]

(***************************************************************************)
(* The state: the last call and what it returned, the PointPolar the       *)
(* caller holds, and the Segment the caller holds.                         *)
(***************************************************************************)
Init ==
    /\ call = NoCall
    /\ result = None
    /\ point = None
    /\ segment = None

\* PointCartesian::new(x, y).as_polar()
AsPolar(p) ==
    /\ point = None
    /\ call' = [op |-> "as_polar", p |-> p]
    /\ result' = as_polar(p)
    /\ point' = IF IsOk(result') THEN result'.val ELSE None
    /\ UNCHANGED segment

\* PointPolar::try_new(radius, theta), public in points.rs
TryNewPolar(radius, theta) ==
    /\ point = None
    /\ call' = [op |-> "polar_try_new", radius |-> radius, theta |-> theta]
    /\ result' = PointPolar_try_new(radius, theta)
    /\ point' = IF IsOk(result') THEN result'.val ELSE None
    /\ UNCHANGED segment

\* the struct literal PointPolar { radius, theta }: both fields are pub in points.rs
Construct(radius, theta) ==
    /\ point = None
    /\ call' = [op |-> "construct", radius |-> radius, theta |-> theta]
    /\ result' = Ok(PointPolar(radius, theta))
    /\ point' = PointPolar(radius, theta)
    /\ UNCHANGED segment

\* Shape::circle(radius); the caller takes the point out of the Arc
Circle(radius) ==
    /\ point = None
    /\ call' = [op |-> "circle", radius |-> radius]
    /\ result' = Shape_circle(radius)
    /\ point' = IF IsOk(result') THEN result'.val.point ELSE None
    /\ UNCHANGED segment

\* Shape::arc(point, arc_length): the held point is moved into the call
ArcOf(arc_length) ==
    /\ point # None
    /\ call' = [op |-> "arc", point |-> point, arc_length |-> arc_length]
    /\ result' = Shape_arc(point, arc_length)
    /\ point' = None
    /\ UNCHANGED segment

\* Segment::try_new(point_a, point_b), once per behaviour
TryNew(point_a, point_b) ==
    /\ call = NoCall
    /\ call' = [op |-> "try_new", a |-> point_a, b |-> point_b]
    /\ result' = Segment_try_new(point_a, point_b)
    /\ segment' = IF IsOk(result') THEN result'.val ELSE None
    /\ UNCHANGED point

\* segment.step(distance) on the held segment
Step(distance) ==
    /\ segment # None
    /\ call' = [op |-> "step", d |-> distance]
    /\ result' = Segment_step(segment, distance)
    /\ UNCHANGED <<segment, point>>

NextPoints ==
    \/ point = None /\ \E p \in Points : AsPolar(p)
    \/ point = None /\ \E r \in RawRadii, th \in RawThetas : TryNewPolar(r, th)
    \/ point = None /\ \E r \in RawRadii, th \in RawThetas : Construct(r, th)
    \/ point = None /\ \E r \in RawRadii : Circle(r)
    \/ point # None /\ \E l \in ArcLengths : ArcOf(l)

NextSegments ==
    \/ call = NoCall /\ \E a \in Points, b \in Points : TryNew(a, b)
    \/ segment # None /\ \E d \in StepDistances(segment) : Step(d)

SpecPoints == Init /\ [][NextPoints]_vars

SpecSegments == Init /\ [][NextSegments]_vars

(***************************************************************************)
(* Geometry over the exact integer coordinates, used to state the claims.  *)
(***************************************************************************)
Sq(n) == n * n

\* x_a * y_b - x_b * y_a
Cross(a, b) == a.x * b.y - b.x * a.y

Len2(a, b) == Sq(a.x - b.x) + Sq(a.y - b.y)

\* |x_a * y_b - x_b * y_a| / |a - b|, the distance from the origin to the line ab
LineDistance(a, b) ==
    IF a = b THEN NaN ELSE ISqrt(Sq(Cross(a, b)) \div Len2(a, b))

\* neither x is negative and exactly one y is negative
RotationMaxCase(a, b) ==
    /\ a.x >= 0
    /\ b.x >= 0
    /\ (a.y < 0) # (b.y < 0)

\* the segment ab has points strictly on both sides of the x axis and meets it at
\* x = (y_a x_b - x_a y_b) / (y_a - y_b) >= 0, that is, on the ray theta = 0
CrossesRay(a, b) ==
    /\ a.y * b.y < 0
    /\ (a.y * b.x - a.x * b.y) * (a.y - b.y) >= 0

\* every point of the segment ab is at least MIN_RADIUS from the origin
ClearOfDeadZone(a, b) ==
    LET t == a.x * (a.x - b.x) + a.y * (a.y - b.y)
    IN IF a = b \/ t <= 0 THEN Sq(a.x) + Sq(a.y) >= Sq(MinR)
       ELSE IF t >= Len2(a, b) THEN Sq(b.x) + Sq(b.y) >= Sq(MinR)
       ELSE Sq(Cross(a, b)) >= Sq(MinR) * Len2(a, b)

InRadiusBounds(r) == ~IsNaN(r) /\ MinR <= r /\ r <= MaxR

ResultKind(r) == IF IsErr(r) THEN r.err.kind ELSE r.tag

(***************************************************************************)
(* The claims.                                                             *)
(***************************************************************************)

\* C1: every PointPolar a caller can hold has MIN_RADIUS <= radius <= MAX_RADIUS,
\* however it was obtained (try_new, as_polar, circle, or a struct literal).
C1_RadiusAlwaysInBounds ==
    point # None => InRadiusBounds(point.radius)

\* C2: as_polar succeeds iff MIN_RADIUS <= hypot(x, y) <= MAX_RADIUS; it fails with
\* AboveMaximumRadius exactly when hypot(x, y) > MAX_RADIUS and BelowMinimumRadius
\* exactly when hypot(x, y) < MIN_RADIUS, and the error carries hypot(x, y) and
\* atan2(y, x).
C2_AsPolarBounds ==
    call.op = "as_polar" =>
        LET h == Hypot(call.p.x, call.p.y)
            th == Atan2(call.p.y, call.p.x)
        IN /\ IsOk(result) <=> (MinR <= h /\ h <= MaxR)
           /\ (h > MaxR) <=> (IsErr(result) /\ result.err.kind = "AboveMaximumRadius")
           /\ (h < MinR) <=> (IsErr(result) /\ result.err.kind = "BelowMinimumRadius")
           /\ IsErr(result) => result.err.radius = h /\ result.err.theta = th
           /\ IsOk(result) => result.val = PointPolar(h, th)
           /\ Sq(h) <= Sq(call.p.x) + Sq(call.p.y)
           /\ Sq(call.p.x) + Sq(call.p.y) < Sq(h + 1)

C2_Witness ==
    /\ call.op = "as_polar"
    /\ IsErr(result)
    /\ result.err.kind = "AboveMaximumRadius"
    /\ result.err.radius > MaxR
    /\ result.err.theta # 0

\* C3: try_new returns CrossesRotationMax iff neither endpoint has a negative x and
\* exactly one endpoint has a negative y, whatever the dead-zone check would say.
C3_RotationMaxFirst ==
    call.op = "try_new" =>
        (result = Err(CrossesRotationMax) <=> RotationMaxCase(call.a, call.b))

\* a pair that trips the rotation-max check and whose line also enters the dead zone
C3_Witness ==
    /\ call.op = "try_new"
    /\ result = Err(CrossesRotationMax)
    /\ ~ClearOfDeadZone(call.a, call.b)
    /\ FLt(LineDistance(call.a, call.b), MinR)

\* C4: a pair that passes the rotation-max check yields CrossesDeadZone(d) iff
\* d < MIN_RADIUS, d = |x_a y_b - x_b y_a| / |a - b| (0/0 = NaN when a = b), and
\* otherwise Ok with the Segment holding a and b in that order.
C4_DeadZoneIffBelowMin ==
    (call.op = "try_new" /\ ~RotationMaxCase(call.a, call.b)) =>
        LET d == LineDistance(call.a, call.b)
        IN IF FLt(d, MinR)
           THEN result = Err(CrossesDeadZone(d)) /\ segment = None
           ELSE result = Ok(Segment(call.a, call.b)) /\ segment = Segment(call.a, call.b)

\* rejected although both endpoints, and so the whole finite segment, are outside
\* the dead zone: only the infinite line enters it
C4_Witness ==
    /\ call.op = "try_new"
    /\ IsErr(result)
    /\ result.err.kind = "CrossesDeadZone"
    /\ result.err.distance > 0
    /\ ClearOfDeadZone(call.a, call.b)

\* C5: an accepted segment never passes from one side of the ray theta = 0 to the other.
C5_NeverCrossesRotationMax ==
    segment # None => ~CrossesRay(segment.a, segment.b)

\* C6: no point of an accepted segment lies inside the dead zone, zero-length
\* segments included.
C6_NeverEntersDeadZone ==
    segment # None => ClearOfDeadZone(segment.a, segment.b)

\* C7: on an accepted segment of length L, step(0) is the polar form of a, step(L)
\* the polar form of b, and step(d) is None for d < 0 or d > L.
C7_StepEndpoints ==
    (call.op = "step" /\ segment # None) =>
        LET L == segment_length(segment)
        IN /\ call.d = 0 => result = as_polar(segment.a)
           /\ call.d = L => result = as_polar(segment.b)
           /\ (call.d < 0 \/ call.d > L) => result = None

\* C8 as stated: angle = arc_length + theta, CrossesRotationMax iff angle > 2 pi,
\* otherwise the arc with the unchanged point and Partial(angle).
C8_AngleIsLengthPlusTheta ==
    call.op = "arc" =>
        LET angle == MulDiv(call.arc_length, AngleScale, Scale) + call.point.theta
        IN IF angle > 2 * PI
           THEN result = Err(CrossesRotationMax)
           ELSE result = Ok(Arc(call.point, Partial(angle)))

\* C8 amended: angle = to_degrees(arc_length / radius) + theta, CrossesRotationMax
\* iff angle > 360, otherwise the arc with the unchanged point and Partial(angle);
\* there is no lower bound on angle.
C8_AngleInDegreesOfLengthOverRadius ==
    call.op = "arc" =>
        LET radians == MulDiv(call.arc_length, AngleScale, call.point.radius)
            angle == FAdd(ToDegrees(radians), call.point.theta)
        IN /\ result = Err(CrossesRotationMax) <=> FGt(angle, FullTurn)
           /\ ~FGt(angle, FullTurn) => result = Ok(Arc(call.point, Partial(angle)))
           /\ (IsFinite(angle) /\ angle < 0) => IsOk(result)
           /\ point = None

\* a negative sweep, accepted with a negative terminal angle
C8_Witness ==
    /\ call.op = "arc"
    /\ call.arc_length < 0
    /\ InRadiusBounds(call.point.radius)
    /\ IsOk(result)
    /\ result.val.rotation.rot = "Partial"
    /\ result.val.rotation.angle < 0

\* C9: both endpoints of an accepted segment convert with as_polar, and so does
\* every interpolated point step(d), 0 <= d <= L.
C9_InterpolatedPointsConvert ==
    segment # None =>
        /\ IsOk(as_polar(segment.a))
        /\ IsOk(as_polar(segment.b))
        /\ (call.op = "step" /\ 0 <= call.d /\ call.d <= segment_length(segment)) =>
               (IsOk(result) /\ InRadiusBounds(result.val.radius))

====
